---- MODULE Spec2Model ----
(***************************************************************************)
(* Model of the IQS231 capacitive proximity sensor driver (iqs231-rs):     *)
(* the register map, the bit-packed register codecs, the RegValue envelope *)
(* and the Iqs231 device handle with its I2C transactions.                 *)
(***************************************************************************)
EXTENDS Integers, Sequences, FiniteSets, TLC

VARIABLES
    handle,   \* the Iqs231 value: "usable" until a method takes it by value
    regs,     \* the chip's register file, address -> byte
    last,     \* the last call made through the handle, with its result
    nops,     \* calls made so far (counted under Spec)
    input     \* the call under test (SpecUnit); NoInput under Spec

vars == <<handle, regs, last, nops, input>>

\* ------------------------------------------------------------------ bounds

\* calls explored per behaviour of Spec
MaxOps == 2

\* largest touch threshold argument tried, besides u16::MAX
MaxTouchInput == 1030

\* ------------------------------------------------------------ u8 helpers

Byte == 0..255

Pow2(n) == 2 ^ n

RECURSIVE BitAnd(_, _)
BitAnd(a, b) ==
    IF a = 0 \/ b = 0 THEN 0
    ELSE (a % 2) * (b % 2) + 2 * BitAnd(a \div 2, b \div 2)

RECURSIVE BitOr(_, _)
BitOr(a, b) ==
    IF a = 0 THEN b
    ELSE IF b = 0 THEN a
    ELSE (IF a % 2 = 1 \/ b % 2 = 1 THEN 1 ELSE 0) + 2 * BitOr(a \div 2, b \div 2)

Shl(a, n) == a * Pow2(n)

Shr(a, n) == a \div Pow2(n)

AsU8(x) == x % 256

AsU16(x) == x % 65536

\* --------------------------------------------------------- registers.rs

\* enum Register, #[repr(u8)]: variant -> address (`reg as u8`)
RegAddr ==
    [ ProductNumber |-> 0, SoftwareVersion |-> 1, DebugEvents |-> 2,
      Reserved |-> 3, Commands |-> 4, OtpBank1 |-> 5, OtpBank2 |-> 6,
      OtpBank3 |-> 7, QuickRelease |-> 8, Movement |-> 9,
      TouchThreshold |-> 10, ProximityThreshold |-> 11,
      TempInterferenceThreshold |-> 12, CH0_Multipliers |-> 13,
      CH0_Compensation |-> 14, CH1_Multipliers |-> 15,
      CH1_Compensation |-> 16, System_Flags |-> 17, UI_Flags |-> 18,
      ATI_Flags |-> 19, EventFlags |-> 20, CH0_ACF_H |-> 21,
      CH0_ACF_L |-> 22, CH0_LTA_H |-> 23, CH0_LTA_L |-> 24,
      CH0_QRD_H |-> 25, CH0_QRD_L |-> 26, CH1_ACF_H |-> 27,
      CH1_ACF_L |-> 28, CH1_UMOV_H |-> 29, CH1_UMOV_L |-> 30,
      CH1_LMOV_H |-> 31, CH1_LMOV_L |-> 32, CH1_RAW_H |-> 33,
      CH1_RAW_L |-> 34, Temperature_H |-> 35, Temperature_L |-> 36,
      LtaHaltTimer_H |-> 37, LtaHaltTimer_L |-> 38, FilterHaltTimer |-> 39,
      TimerReadInput |-> 40, TimerRedoAti |-> 41 ]

Register == DOMAIN RegAddr

Addresses == {RegAddr[r] : r \in Register}

is_writable_all(reg) == TRUE

\* Register::is_writable
is_writable(reg) ==
    reg \in { "Reserved", "Commands", "OtpBank1", "OtpBank2", "OtpBank3",
              "QuickRelease", "Movement", "TouchThreshold",
              "ProximityThreshold", "TempInterferenceThreshold",
              "CH0_Multipliers", "CH0_Compensation", "CH1_Multipliers",
              "CH1_Compensation" }

\* Register::from_u8: try_from_primitive, InvalidRegister when unmapped
from_u8(reg_nr) ==
    IF \E r \in Register : RegAddr[r] = reg_nr
    THEN [ok |-> TRUE, reg |-> CHOOSE r \in Register : RegAddr[r] = reg_nr]
    ELSE [ok |-> FALSE, reg |-> "InvalidRegister"]

\* Register::next
next(reg) == from_u8(RegAddr[reg] + 1)

PRODUCT_NUMBER == 64

\* enum SoftwareVersion, TryFromPrimitive
SoftwareVersion_try_from_primitive(b) ==
    IF b = 6 THEN [ok |-> TRUE, v |-> "IQS231A"]
    ELSE IF b = 7 THEN [ok |-> TRUE, v |-> "IQS231B"]
    ELSE [ok |-> FALSE, v |-> b]

\* Commands::STANDALONE
STANDALONE == 1

\* bitflags `contains`: all bits of `other` are set in `flags`
contains(flags, other) == BitAnd(flags, other) = other

\* bitflags `from_bits_retain`: every bit is kept, known or not
from_bits_retain(bits) == bits

RegValueFrom_masked(bytes) ==
    [main_events |-> BitAnd(bytes[1], 63), value |-> bytes[2]]

\* RegValue<u8>::from([u8; 2])
RegValueFrom(bytes) ==
    [main_events |-> from_bits_retain(bytes[1]), value |-> bytes[2]]

\* ------------------------------------------------- bit-packed registers

\* #[derive(BitfieldSpecifier)] enums: variants in declaration order, the
\* n-th variant (from 0) is the bit pattern n
ProximityThresholdVariants == <<"Counts4", "Counts6", "Counts8", "Counts10">>

UiSelectVariants ==
    <<"ProxNoMov", "ProxWithMov", "ProxWithMovTouchNoMov", "ProxWithMovTouchOnIo2">>

BaseValueVariants == <<"Counts100", "Counts75", "Counts150", "Counts200">>

SampleRateVariants == <<"_30Hz", "_100Hz", "_8Hz", "_4Hz">>

Io2FunctionVariants == <<"Sensitivity", "Synchronize", "Movement", "Ignore">>

ChargeTransferFrequencyVariants == <<"_500kHz", "_125kHz", "_64kHz", "_16kHz">>

QuickReleaseThresholdVariants ==
    << "Qrt100", "Qrt150", "Qrt50", "Qrt250", "Qrt10", "Qrt20", "Qrt25",
       "Qrt30", "Qrt75", "Qrt200", "Qrt300", "Qrt400", "Qrt500", "Qrt750",
       "Qrt850", "Qrt1000" >>

Range(seq) == {seq[i] : i \in DOMAIN seq}

\* field types: "uint" (B1/B2/B4), "bool", or an enum given by its variants
F(name, bits, ty) == [name |-> name, bits |-> bits, ty |-> ty]

\* #[bitfield(bits = 8)] structs: fields in declaration order
OtpBank1 ==
    << F("touch_thresh", 2, "uint"), F("ac_filter", 2, "uint"),
       F("prox_thresh", 2, ProximityThresholdVariants),
       F("i2c_addr", 2, "uint") >>

OtpBank2 ==
    << F("ui_select", 2, UiSelectVariants), F("quick_release", 1, "uint"),
       F("failsafe_pulses_on_io1", 1, "bool"),
       F("base_value", 2, BaseValueVariants), F("target", 1, "uint"),
       F("increase_debounce", 1, "bool") >>

OtpBank3 ==
    << F("sample_rate", 2, SampleRateVariants),
       F("ati_events_on_io1", 1, "uint"),
       F("io2_function", 2, Io2FunctionVariants),
       F("temp_n_interference_compensation", 1, "bool"),
       F("charge_transfer_freq", 2, ChargeTransferFrequencyVariants) >>

QuickRelease ==
    << F("base", 4, "uint"), F("threshold", 4, QuickReleaseThresholdVariants) >>

ChannelMultiplier ==
    << F("compensation_multiplier", 4, "uint"),
       F("sensitivity_multiplier", 2, "uint"), F("reserved", 2, "uint") >>

Bitfield ==
    [ OtpBank1 |-> OtpBank1, OtpBank2 |-> OtpBank2, OtpBank3 |-> OtpBank3,
      QuickRelease |-> QuickRelease, ChannelMultiplier |-> ChannelMultiplier ]

\* Specifier::into_bytes of one field value
FieldToBits(f, x) ==
    IF f.ty = "uint" THEN x
    ELSE IF f.ty = "bool" THEN (IF x THEN 1 ELSE 0)
    ELSE (CHOOSE i \in DOMAIN f.ty : f.ty[i] = x) - 1

\* Specifier::from_bytes of one field's bits
BitsToField(f, bits) ==
    IF f.ty = "uint" THEN bits
    ELSE IF f.ty = "bool" THEN bits = 1
    ELSE f.ty[bits + 1]

RECURSIVE OffsetMsbFirst(_, _)
OffsetMsbFirst(layout, i) ==
    IF i = Len(layout) THEN 0
    ELSE layout[i + 1].bits + OffsetMsbFirst(layout, i + 1)

\* bit offset of the i-th field: the widths of the fields declared before it
RECURSIVE Offset(_, _)
Offset(layout, i) ==
    IF i = 1 THEN 0 ELSE layout[i - 1].bits + Offset(layout, i - 1)

RECURSIVE PackFrom(_, _, _)
PackFrom(layout, v, i) ==
    IF i > Len(layout) THEN 0
    ELSE Shl(FieldToBits(layout[i], v[layout[i].name]), Offset(layout, i))
         + PackFrom(layout, v, i + 1)

\* T::new().with_<field>(..)...into_bytes()[0]
into_bytes(kind, v) == PackFrom(Bitfield[kind], v, 1)

FieldIndex(layout, name) == CHOOSE i \in DOMAIN layout : layout[i].name = name

FieldNames(layout) == {layout[i].name : i \in DOMAIN layout}

from_bytes_unshifted(kind, b) ==
    LET layout == Bitfield[kind] IN
    [ n \in FieldNames(layout) |->
        LET i == FieldIndex(layout, n) IN
        BitsToField(layout[i], b % Pow2(layout[i].bits)) ]

\* T::from_bytes([b]) seen through the generated getters
from_bytes(kind, b) ==
    LET layout == Bitfield[kind] IN
    [ n \in FieldNames(layout) |->
        LET i == FieldIndex(layout, n) IN
        BitsToField(layout[i],
                    Shr(b, Offset(layout, i)) % Pow2(layout[i].bits)) ]

\* every field assignment of a bit-packed register
BitfieldValues(kind) ==
    CASE kind = "OtpBank1" ->
           [ touch_thresh : 0..3, ac_filter : 0..3,
             prox_thresh : Range(ProximityThresholdVariants), i2c_addr : 0..3 ]
      [] kind = "OtpBank2" ->
           [ ui_select : Range(UiSelectVariants), quick_release : 0..1,
             failsafe_pulses_on_io1 : BOOLEAN,
             base_value : Range(BaseValueVariants), target : 0..1,
             increase_debounce : BOOLEAN ]
      [] kind = "OtpBank3" ->
           [ sample_rate : Range(SampleRateVariants), ati_events_on_io1 : 0..1,
             io2_function : Range(Io2FunctionVariants),
             temp_n_interference_compensation : BOOLEAN,
             charge_transfer_freq : Range(ChargeTransferFrequencyVariants) ]
      [] kind = "QuickRelease" ->
           [ base : 0..15, threshold : Range(QuickReleaseThresholdVariants) ]
      [] kind = "ChannelMultiplier" ->
           [ compensation_multiplier : 0..15, sensitivity_multiplier : 0..3,
             reserved : 0..3 ]

\* ProximityThreshold as u8 (IntoPrimitive, #[repr(u8)])
ProximityThreshold_into(t) ==
    (CHOOSE i \in DOMAIN ProximityThresholdVariants :
        ProximityThresholdVariants[i] = t) - 1

\* impl From<u8> for ProximityThreshold
ProximityThreshold_from(value) == ProximityThresholdVariants[BitAnd(value, 3) + 1]

counts_ascending(t) ==
    LET c == (CHOOSE i \in DOMAIN QuickReleaseThresholdVariants :
                  QuickReleaseThresholdVariants[i] = t)
    IN <<10, 20, 25, 30, 50, 75, 100, 150, 200, 250, 300, 400, 500, 750,
         850, 1000>>[c]

\* QuickReleaseThreshold::counts
counts(t) ==
    [ Qrt100 |-> 100, Qrt150 |-> 150, Qrt50 |-> 50, Qrt250 |-> 250,
      Qrt10 |-> 10, Qrt20 |-> 20, Qrt25 |-> 25, Qrt30 |-> 30, Qrt75 |-> 75,
      Qrt200 |-> 200, Qrt300 |-> 300, Qrt400 |-> 400, Qrt500 |-> 500,
      Qrt750 |-> 750, Qrt850 |-> 850, Qrt1000 |-> 1000 ][t]

\* ------------------------------------------------------- the chip, the bus

NoInput == [v |-> 0, kind |-> "none"]

\* status bytes the chip may prepend to a reply (bits 0x40/0x80 are unassigned)
StatusBytes == {2, 4, 193}

\* what a read transaction can come back with: a transport error, or a
\* status byte followed by the register's byte
BusReplies == {<<0, FALSE>>} \cup {<<st, TRUE>> : st \in StatusBytes}

\* register file of a chip: product number, software version, reset values
\* of the R/W registers, and counters that differ from register to register
Image(pn, sv, seed) ==
    [ a \in Addresses |->
        IF a = RegAddr["ProductNumber"] THEN pn
        ELSE IF a = RegAddr["SoftwareVersion"] THEN sv
        ELSE IF a = RegAddr["Movement"] THEN 52
        ELSE IF a = RegAddr["TouchThreshold"] THEN 7
        ELSE IF a = RegAddr["DebugEvents"] \/ a >= RegAddr["System_Flags"]
             THEN (2 * a + seed) % 256
        ELSE 0 ]

DeviceImages == { Image(64, 6, 217), Image(65, 7, 0), Image(6, 8, 0) }

\* one bus transaction: the bytes sent, whether the transport succeeded,
\* and the bytes received
Tx(kind, out, ok, reply) == [ok |-> ok, kind |-> kind, out |-> out, reply |-> reply]

\* outcome of a call: Ok or the Error variant, the value (or the error's
\* payload), the main events of a RegValue (-1 when there is none), and the
\* bus transactions issued
Outcome(res, val, ev, log) == [res |-> res, val |-> val, ev |-> ev, log |-> log]

Ok(val, ev, log) == Outcome("Ok", val, ev, log)

Err(e, val, log) == Outcome(e, val, -1, log)

\* RegValue::map under an Ok outcome: the value is converted, the main
\* events are kept
map(r, f) == IF r.res = "Ok" THEN [r EXCEPT !.val = f[r.val]] ELSE r

\* an accessor that returns only `.value` of the RegValue
ValueOnly(r) == IF r.res = "Ok" THEN [r EXCEPT !.ev = -1] ELSE r

\* --------------------------------------------------------------- device.rs

read_reg_retry(reg, st, busok) ==
    LET a == RegAddr[reg] IN
    IF busok
    THEN LET rd_buffer == <<st, regs[a]>>
             rv == RegValueFrom(rd_buffer)
         IN Ok(rv.value, rv.main_events,
               <<Tx("write_read", <<a>>, TRUE, rd_buffer)>>)
    ELSE Err("IoError", "E", << Tx("write_read", <<a>>, FALSE, <<>>),
                                Tx("write_read", <<a>>, FALSE, <<>>) >>)

\* Iqs231::read_reg
read_reg(reg, st, busok) ==
    LET a == RegAddr[reg] IN
    IF busok
    THEN LET rd_buffer == <<st, regs[a]>>
             rv == RegValueFrom(rd_buffer)
         IN Ok(rv.value, rv.main_events,
               <<Tx("write_read", <<a>>, TRUE, rd_buffer)>>)
    ELSE Err("IoError", "E", <<Tx("write_read", <<a>>, FALSE, <<>>)>>)

\* Iqs231::write_reg
write_reg(reg, value, busok) ==
    IF is_writable(reg)
    THEN IF busok
         THEN Ok("unit", -1, <<Tx("write", <<RegAddr[reg], value>>, TRUE, <<>>)>>)
         ELSE Err("IoError", "E",
                  <<Tx("write", <<RegAddr[reg], value>>, FALSE, <<>>)>>)
    ELSE Err("RegisterNotWritable", "none", <<>>)

read_reg16_low_first(reg, st1, ok1, st2, ok2) ==
    LET hi == read_reg(reg, st1, ok1) IN
    IF hi.res # "Ok" THEN hi
    ELSE LET nx == next(reg) IN
         IF ~nx.ok THEN Err("InvalidRegister", "none", hi.log)
         ELSE LET lo == read_reg(nx.reg, st2, ok2) IN
              IF lo.res # "Ok" THEN [lo EXCEPT !.log = hi.log \o lo.log]
              ELSE Ok(BitOr(AsU16(Shl(lo.val, 8)), hi.val), lo.ev,
                      hi.log \o lo.log)

\* Iqs231::read_reg16
read_reg16(reg, st1, ok1, st2, ok2) ==
    LET hi == read_reg(reg, st1, ok1) IN
    IF hi.res # "Ok" THEN hi
    ELSE LET nx == next(reg) IN
         IF ~nx.ok THEN Err("InvalidRegister", "none", hi.log)
         ELSE LET lo == read_reg(nx.reg, st2, ok2) IN
              IF lo.res # "Ok" THEN [lo EXCEPT !.log = hi.log \o lo.log]
              ELSE Ok(BitOr(AsU16(Shl(hi.val, 8)), lo.val),
                      BitOr(hi.ev, lo.ev), hi.log \o lo.log)

\* Iqs231::read_reg_t with T = ProximityThreshold
read_reg_t(reg, st, busok) ==
    map(read_reg(reg, st, busok), [v \in Byte |-> ProximityThreshold_from(v)])

\* the chip stores the bytes of every write the transport delivered
Delivered(log) == {i \in DOMAIN log : log[i].kind = "write" /\ log[i].ok}

Store(rf, log) ==
    IF Delivered(log) = {} THEN rf
    ELSE LET tx == log[CHOOSE i \in Delivered(log) : TRUE]
         IN [rf EXCEPT ![tx.out[1]] = tx.out[2]]

\* the call budget applies to Spec; under SpecUnit the register file can
\* only hold its initial bytes or bytes derived from the one input
Budget == input.kind # "none" \/ nops < MaxOps

Counted == IF input.kind = "none" THEN nops + 1 ELSE nops

CallRecord(op, arg, r) ==
    [res |-> r.res, val |-> r.val, ev |-> r.ev, log |-> r.log, op |-> op, arg |-> arg]

\* a `&mut self` method: the handle stays with the caller
Call(op, arg, r) ==
    /\ handle = "usable"
    /\ Budget
    /\ last' = CallRecord(op, arg, r)
    /\ regs' = Store(regs, r.log)
    /\ nops' = Counted
    /\ UNCHANGED <<handle, input>>

\* Iqs231::new: a usable handle on a chip that has not been talked to yet
NewCall == CallRecord("new", "none", Ok("handle", -1, <<>>))

\* Iqs231::destroy
destroy ==
    /\ handle = "usable"
    /\ Budget
    /\ handle' = "destroyed"
    /\ last' = CallRecord("destroy", "none", Ok("bus", -1, <<>>))
    /\ nops' = Counted
    /\ UNCHANGED <<regs, input>>

\* Iqs231::read_main_events
read_main_events ==
    \E <<st, busok>> \in BusReplies :
        Call("read_main_events", "none",
             IF busok
             THEN Ok(from_bits_retain(st), -1, <<Tx("read", <<>>, TRUE, <<st>>)>>)
             ELSE Err("IoError", "E", <<Tx("read", <<>>, FALSE, <<>>)>>))

get_prod_nr_any(st, busok) ==
    LET r == read_reg("ProductNumber", st, busok) IN
    IF r.res # "Ok" THEN r ELSE Ok(r.val, -1, r.log)

\* Iqs231::get_prod_nr, given the reply's status byte and the transport result
get_prod_nr_outcome(st, busok) ==
    LET r == read_reg("ProductNumber", st, busok) IN
    IF r.res # "Ok" THEN r
    ELSE LET prod_nr == r.val IN
         IF prod_nr = PRODUCT_NUMBER THEN Ok(prod_nr, -1, r.log)
         ELSE Err("IncorrectProductNumber", prod_nr, r.log)

get_prod_nr ==
    \E <<st, busok>> \in BusReplies :
        Call("get_prod_nr", "none", get_prod_nr_outcome(st, busok))

\* Iqs231::get_software_version
get_software_version_outcome(st, busok) ==
    LET r == read_reg("ProductNumber", st, busok) IN
    IF r.res # "Ok" THEN r
    ELSE LET ver == r.val
             sv == SoftwareVersion_try_from_primitive(ver)
         IN IF sv.ok THEN Ok(sv.v, -1, r.log)
            ELSE Err("UnknownSoftwareVersion", ver, r.log)

get_software_version ==
    \E <<st, busok>> \in BusReplies :
        Call("get_software_version", "none", get_software_version_outcome(st, busok))

\* Iqs231::set_otp_bank1
set_otp_bank1(value) ==
    \E busok \in BOOLEAN :
        Call("set_otp_bank1", value, write_reg("OtpBank1", into_bytes("OtpBank1", value), busok))

\* Iqs231::set_otp_bank2
set_otp_bank2(value) ==
    \E busok \in BOOLEAN :
        Call("set_otp_bank2", value, write_reg("OtpBank2", into_bytes("OtpBank2", value), busok))

\* Iqs231::set_otp_bank3
set_otp_bank3(value) ==
    \E busok \in BOOLEAN :
        Call("set_otp_bank3", value, write_reg("OtpBank3", into_bytes("OtpBank3", value), busok))

\* Iqs231::set_ch0_multipliers
set_ch0_multipliers(value) ==
    \E busok \in BOOLEAN :
        Call("set_ch0_multipliers", value, write_reg("CH0_Multipliers", into_bytes("ChannelMultiplier", value), busok))

\* Iqs231::set_ch1_multipliers
set_ch1_multipliers(value) ==
    \E busok \in BOOLEAN :
        Call("set_ch1_multipliers", value, write_reg("CH1_Multipliers", into_bytes("ChannelMultiplier", value), busok))

\* Iqs231::set_quick_release
set_quick_release(value) ==
    \E busok \in BOOLEAN :
        Call("set_quick_release", value, write_reg("QuickRelease", into_bytes("QuickRelease", value), busok))

\* Iqs231::get_otp_bank1
get_otp_bank1 ==
    \E <<st, busok>> \in BusReplies :
        Call("get_otp_bank1", "none",
             map(read_reg("OtpBank1", st, busok), [v \in Byte |-> from_bytes("OtpBank1", v)]))

\* Iqs231::get_otp_bank2
get_otp_bank2 ==
    \E <<st, busok>> \in BusReplies :
        Call("get_otp_bank2", "none",
             map(read_reg("OtpBank2", st, busok), [v \in Byte |-> from_bytes("OtpBank2", v)]))

\* Iqs231::get_otp_bank3
get_otp_bank3 ==
    \E <<st, busok>> \in BusReplies :
        Call("get_otp_bank3", "none",
             map(read_reg("OtpBank3", st, busok), [v \in Byte |-> from_bytes("OtpBank3", v)]))

\* Iqs231::get_ch0_multipliers
get_ch0_multipliers ==
    \E <<st, busok>> \in BusReplies :
        Call("get_ch0_multipliers", "none",
             map(read_reg("CH0_Multipliers", st, busok), [v \in Byte |-> from_bytes("ChannelMultiplier", v)]))

\* Iqs231::get_ch1_multipliers
get_ch1_multipliers ==
    \E <<st, busok>> \in BusReplies :
        Call("get_ch1_multipliers", "none",
             map(read_reg("CH1_Multipliers", st, busok), [v \in Byte |-> from_bytes("ChannelMultiplier", v)]))

\* Iqs231::get_otp_bank_1
get_otp_bank_1 ==
    \E <<st, busok>> \in BusReplies :
        Call("get_otp_bank_1", "none",
             map(read_reg("OtpBank1", st, busok), [v \in Byte |-> from_bytes("OtpBank1", v)]))

\* Iqs231::get_otp_bank_2
get_otp_bank_2 ==
    \E <<st, busok>> \in BusReplies :
        Call("get_otp_bank_2", "none",
             map(read_reg("OtpBank2", st, busok), [v \in Byte |-> from_bytes("OtpBank2", v)]))

\* Iqs231::get_otp_bank_3
get_otp_bank_3 ==
    \E <<st, busok>> \in BusReplies :
        Call("get_otp_bank_3", "none",
             map(read_reg("OtpBank3", st, busok), [v \in Byte |-> from_bytes("OtpBank3", v)]))

\* Iqs231::get_quick_release
get_quick_release ==
    \E <<st, busok>> \in BusReplies :
        Call("get_quick_release", "none",
             map(read_reg("QuickRelease", st, busok), [v \in Byte |-> from_bytes("QuickRelease", v)]))

set_touch_threshold_unchecked(threshold, busok) ==
    write_reg("TouchThreshold", AsU8(Shr(threshold - 4, 2)), busok)

\* Iqs231::set_touch_threshold, given the transport result
set_touch_threshold_outcome(threshold, busok) ==
    IF threshold < 4 \/ threshold > 1024
    THEN Err("TouchThresholdOutOfRange", "none", <<>>)
    ELSE LET value == Shr(threshold - 4, 2) IN
         write_reg("TouchThreshold", AsU8(value), busok)

set_touch_threshold(threshold) ==
    \E busok \in BOOLEAN :
        Call("set_touch_threshold", threshold,
             set_touch_threshold_outcome(threshold, busok))

\* Iqs231::get_touch_threshold
get_touch_threshold ==
    \E <<st, busok>> \in BusReplies :
        Call("get_touch_threshold", "none",
             map(read_reg("TouchThreshold", st, busok),
                      [v \in Byte |-> AsU16(Shl(v, 2)) + 4]))

\* Iqs231::set_proximity_threshold
set_proximity_threshold(threshold) ==
    \E busok \in BOOLEAN :
        Call("set_proximity_threshold", threshold,
             write_reg("ProximityThreshold", ProximityThreshold_into(threshold), busok))

\* Iqs231::get_proximity_threshold
get_proximity_threshold ==
    \E <<st, busok>> \in BusReplies :
        Call("get_proximity_threshold", "none",
             read_reg_t("ProximityThreshold", st, busok))

\* Iqs231::set_temp_interference_threshold
set_temp_interference_threshold(b) ==
    \E busok \in BOOLEAN : Call("set_temp_interference_threshold", b, write_reg("TempInterferenceThreshold", b, busok))

\* Iqs231::set_ch0_compensation
set_ch0_compensation(b) ==
    \E busok \in BOOLEAN : Call("set_ch0_compensation", b, write_reg("CH0_Compensation", b, busok))

\* Iqs231::set_ch1_compensation
set_ch1_compensation(b) ==
    \E busok \in BOOLEAN : Call("set_ch1_compensation", b, write_reg("CH1_Compensation", b, busok))

\* Iqs231::get_ch0_compensation
get_ch0_compensation ==
    \E <<st, busok>> \in BusReplies :
        Call("get_ch0_compensation", "none", read_reg("CH0_Compensation", st, busok))

\* Iqs231::get_ch1_compensation
get_ch1_compensation ==
    \E <<st, busok>> \in BusReplies :
        Call("get_ch1_compensation", "none", read_reg("CH1_Compensation", st, busok))

\* Iqs231::get_filter_halt_timer
get_filter_halt_timer ==
    \E <<st, busok>> \in BusReplies :
        Call("get_filter_halt_timer", "none", read_reg("FilterHaltTimer", st, busok))

\* Iqs231::get_timer_read_input
get_timer_read_input ==
    \E <<st, busok>> \in BusReplies :
        Call("get_timer_read_input", "none", read_reg("TimerReadInput", st, busok))

\* Iqs231::get_timer_redo_ati
get_timer_redo_ati ==
    \E <<st, busok>> \in BusReplies :
        Call("get_timer_redo_ati", "none", read_reg("TimerRedoAti", st, busok))

\* Iqs231::get_debug_events
get_debug_events ==
    \E <<st, busok>> \in BusReplies :
        Call("get_debug_events", "none",
             map(ValueOnly(read_reg("ProductNumber", st, busok)), [v \in Byte |-> from_bits_retain(v)]))

\* Iqs231::get_system_flags
get_system_flags ==
    \E <<st, busok>> \in BusReplies :
        Call("get_system_flags", "none",
             map(ValueOnly(read_reg("System_Flags", st, busok)), [v \in Byte |-> from_bits_retain(v)]))

\* Iqs231::get_ui_flags
get_ui_flags ==
    \E <<st, busok>> \in BusReplies :
        Call("get_ui_flags", "none",
             map(ValueOnly(read_reg("UI_Flags", st, busok)), [v \in Byte |-> from_bits_retain(v)]))

\* Iqs231::get_event_flags
get_event_flags ==
    \E <<st, busok>> \in BusReplies :
        Call("get_event_flags", "none",
             map(ValueOnly(read_reg("EventFlags", st, busok)), [v \in Byte |-> from_bits_retain(v)]))

\* Iqs231::get_prox_filtered_count
get_prox_filtered_count ==
    \E <<st1, ok1>> \in BusReplies, <<st2, ok2>> \in BusReplies :
        Call("get_prox_filtered_count", "none", read_reg16("CH0_ACF_H", st1, ok1, st2, ok2))

\* Iqs231::get_prox_reference_count
get_prox_reference_count ==
    \E <<st1, ok1>> \in BusReplies, <<st2, ok2>> \in BusReplies :
        Call("get_prox_reference_count", "none", read_reg16("CH0_LTA_H", st1, ok1, st2, ok2))

\* Iqs231::get_prox_quick_release_detect_reference
get_prox_quick_release_detect_reference ==
    \E <<st1, ok1>> \in BusReplies, <<st2, ok2>> \in BusReplies :
        Call("get_prox_quick_release_detect_reference", "none", read_reg16("CH0_QRD_H", st1, ok1, st2, ok2))

\* Iqs231::get_move_filtered_count
get_move_filtered_count ==
    \E <<st1, ok1>> \in BusReplies, <<st2, ok2>> \in BusReplies :
        Call("get_move_filtered_count", "none", read_reg16("CH1_ACF_H", st1, ok1, st2, ok2))

\* Iqs231::get_move_upper_reference_count
get_move_upper_reference_count ==
    \E <<st1, ok1>> \in BusReplies, <<st2, ok2>> \in BusReplies :
        Call("get_move_upper_reference_count", "none", read_reg16("CH1_UMOV_H", st1, ok1, st2, ok2))

\* Iqs231::get_move_lower_reference_count
get_move_lower_reference_count ==
    \E <<st1, ok1>> \in BusReplies, <<st2, ok2>> \in BusReplies :
        Call("get_move_lower_reference_count", "none", read_reg16("CH1_LMOV_L", st1, ok1, st2, ok2))

\* Iqs231::get_move_unfiltered_count
get_move_unfiltered_count ==
    \E <<st1, ok1>> \in BusReplies, <<st2, ok2>> \in BusReplies :
        Call("get_move_unfiltered_count", "none", read_reg16("CH1_RAW_H", st1, ok1, st2, ok2))

\* Iqs231::get_temp_reference
get_temp_reference ==
    \E <<st1, ok1>> \in BusReplies, <<st2, ok2>> \in BusReplies :
        Call("get_temp_reference", "none", read_reg16("Temperature_H", st1, ok1, st2, ok2))

\* Iqs231::get_lta_halt_timer
get_lta_halt_timer ==
    \E <<st1, ok1>> \in BusReplies, <<st2, ok2>> \in BusReplies :
        Call("get_lta_halt_timer", "none", read_reg16("LtaHaltTimer_H", st1, ok1, st2, ok2))

into_standalone_keeps_handle ==
    \E busok \in BOOLEAN :
        Call("into_standalone", "none",
             LET w == write_reg("Commands", STANDALONE, busok) IN
             IF w.res = "Ok" THEN Ok("bus", -1, w.log) ELSE w)

\* Iqs231::into_standalone: `self` is taken by value; the bus comes back only
\* in the Ok result, an Err drops the handle with the bus in it
into_standalone ==
    \E busok \in BOOLEAN :
        LET w == write_reg("Commands", STANDALONE, busok)
            r == IF w.res = "Ok" THEN Ok("bus", -1, w.log) ELSE w
        IN /\ handle = "usable"
           /\ Budget
           /\ handle' = IF w.res = "Ok" THEN "standalone" ELSE "dropped"
           /\ last' = CallRecord("into_standalone", "none", r)
           /\ regs' = Store(regs, r.log)
           /\ nops' = Counted
           /\ UNCHANGED input

send_commands_exact_only(commands, busok) ==
    IF commands = STANDALONE
    THEN Err("ShutdownCommandNotAllowed", "none", <<>>)
    ELSE write_reg("Commands", commands, busok)

\* Iqs231::send_commands, given the transport result
send_commands_outcome(commands, busok) ==
    IF contains(commands, STANDALONE)
    THEN Err("ShutdownCommandNotAllowed", "none", <<>>)
    ELSE write_reg("Commands", commands, busok)

send_commands(commands) ==
    \E busok \in BOOLEAN :
        Call("send_commands", commands, send_commands_outcome(commands, busok))

\* crate-internal use of write_reg on an arbitrary register
write_reg_call(reg, value) ==
    \E busok \in BOOLEAN :
        Call("write_reg", [reg |-> reg, value |-> value], write_reg(reg, value, busok))

\* crate-internal use of read_reg16 on an arbitrary register
read_reg16_call(reg) ==
    \E <<st1, ok1>> \in BusReplies, <<st2, ok2>> \in BusReplies :
        Call("read_reg16", reg, read_reg16(reg, st1, ok1, st2, ok2))

\* ------------------------------------------------------------ Spec: a session

\* arguments tried in a session
CommandSamples == {1, 36, 129}

BitfieldSamples(kind) == {from_bytes(kind, 149)}

TouchSamples == {3, 4, 1024, 1025}

ProximitySamples == {"Counts10"}

ByteSamples == {255}

Init ==
    /\ handle = "usable"
    /\ regs \in DeviceImages
    /\ last = NewCall
    /\ nops = 0
    /\ input = NoInput

Next ==
    \/ destroy
    \/ read_main_events
    \/ get_prod_nr
    \/ get_software_version
    \/ \E v \in BitfieldSamples("OtpBank1") : set_otp_bank1(v)
    \/ get_otp_bank1
    \/ \E v \in BitfieldSamples("OtpBank2") : set_otp_bank2(v)
    \/ get_otp_bank2
    \/ \E v \in BitfieldSamples("OtpBank3") : set_otp_bank3(v)
    \/ get_otp_bank3
    \/ \E v \in TouchSamples : set_touch_threshold(v)
    \/ get_touch_threshold
    \/ \E v \in ProximitySamples : set_proximity_threshold(v)
    \/ get_proximity_threshold
    \/ \E b \in ByteSamples : set_temp_interference_threshold(b)
    \/ \E v \in BitfieldSamples("ChannelMultiplier") : set_ch0_multipliers(v)
    \/ get_ch0_multipliers
    \/ \E b \in ByteSamples : set_ch0_compensation(b)
    \/ get_ch0_compensation
    \/ \E v \in BitfieldSamples("ChannelMultiplier") : set_ch1_multipliers(v)
    \/ get_ch1_multipliers
    \/ \E b \in ByteSamples : set_ch1_compensation(b)
    \/ get_ch1_compensation
    \/ get_debug_events
    \/ get_system_flags
    \/ get_ui_flags
    \/ get_event_flags
    \/ get_otp_bank_1
    \/ get_otp_bank_2
    \/ get_otp_bank_3
    \/ \E v \in BitfieldSamples("QuickRelease") : set_quick_release(v)
    \/ get_quick_release
    \/ get_prox_filtered_count
    \/ get_prox_reference_count
    \/ get_prox_quick_release_detect_reference
    \/ get_move_filtered_count
    \/ get_move_upper_reference_count
    \/ get_move_lower_reference_count
    \/ get_move_unfiltered_count
    \/ get_temp_reference
    \/ get_lta_halt_timer
    \/ get_filter_halt_timer
    \/ get_timer_read_input
    \/ get_timer_redo_ati
    \/ into_standalone
    \/ \E c \in CommandSamples : send_commands(c)

Spec == Init /\ [][Next]_vars

\* ------------------------------------- SpecUnit: one call, every argument

In(kind, v) == [v |-> v, kind |-> kind]

\* u16 arguments of set_touch_threshold
TouchInputs == 0..MaxTouchInput \cup {65535}

\* u8 arguments of the setters that pass their byte through
UnitBytes == {0, 3, 128, 255}

SetterOf ==
    [OtpBank1 |-> "set_otp_bank1", OtpBank2 |-> "set_otp_bank2", OtpBank3 |-> "set_otp_bank3"]

InitUnit ==
    /\ handle = "usable"
    /\ regs = Image(64, 6, 217)
    /\ last = NewCall
    /\ nops = 0
    /\ \/ \E k \in {"OtpBank1", "OtpBank2", "OtpBank3"} :
             \E v \in BitfieldValues(k) : input = In(SetterOf[k], v)
       \/ \E v \in BitfieldValues("QuickRelease") : input = In("set_quick_release", v)
       \/ \E v \in BitfieldValues("ChannelMultiplier") :
             input \in {In("set_ch0_multipliers", v), In("set_ch1_multipliers", v)}
       \/ \E v \in TouchInputs : input = In("set_touch_threshold", v)
       \/ \E v \in Range(ProximityThresholdVariants) :
             input = In("set_proximity_threshold", v)
       \/ \E b \in UnitBytes :
             input \in { In("set_temp_interference_threshold", b),
                         In("set_ch0_compensation", b), In("set_ch1_compensation", b) }
       \/ \E c \in Byte : input = In("send_commands", c)
       \/ \E r \in Register, b \in UnitBytes :
             input = In("write_reg", [reg |-> r, value |-> b])
       \/ \E r \in Register : input = In("read_reg16", r)

\* the call under test
UnitCall ==
    \/ input.kind = "set_otp_bank1" /\ set_otp_bank1(input.v)
    \/ input.kind = "set_otp_bank2" /\ set_otp_bank2(input.v)
    \/ input.kind = "set_otp_bank3" /\ set_otp_bank3(input.v)
    \/ input.kind = "set_quick_release" /\ set_quick_release(input.v)
    \/ input.kind = "set_ch0_multipliers" /\ set_ch0_multipliers(input.v)
    \/ input.kind = "set_ch1_multipliers" /\ set_ch1_multipliers(input.v)
    \/ input.kind = "set_touch_threshold" /\ set_touch_threshold(input.v)
    \/ input.kind = "set_proximity_threshold" /\ set_proximity_threshold(input.v)
    \/ input.kind = "set_temp_interference_threshold"
          /\ set_temp_interference_threshold(input.v)
    \/ input.kind = "set_ch0_compensation" /\ set_ch0_compensation(input.v)
    \/ input.kind = "set_ch1_compensation" /\ set_ch1_compensation(input.v)
    \/ input.kind = "send_commands" /\ send_commands(input.v)
    \/ input.kind = "write_reg" /\ write_reg_call(input.v.reg, input.v.value)
    \/ input.kind = "read_reg16" /\ read_reg16_call(input.v)

\* reading back the register the call under test writes
UnitReadBack ==
    \/ input.kind = "set_otp_bank1" /\ (get_otp_bank1 \/ get_otp_bank_1)
    \/ input.kind = "set_otp_bank2" /\ (get_otp_bank2 \/ get_otp_bank_2)
    \/ input.kind = "set_otp_bank3" /\ (get_otp_bank3 \/ get_otp_bank_3)
    \/ input.kind = "set_quick_release" /\ get_quick_release
    \/ input.kind = "set_ch0_multipliers" /\ get_ch0_multipliers
    \/ input.kind = "set_ch1_multipliers" /\ get_ch1_multipliers
    \/ input.kind = "set_touch_threshold" /\ get_touch_threshold
    \/ input.kind = "set_proximity_threshold" /\ get_proximity_threshold
    \/ input.kind = "set_ch0_compensation" /\ get_ch0_compensation
    \/ input.kind = "set_ch1_compensation" /\ get_ch1_compensation

Got(ops) == last.op \in ops /\ last.res = "Ok"

\* a caller writing back the value it has just read
UnitWriteBack ==
    \/ Got({"get_otp_bank1", "get_otp_bank_1"}) /\ set_otp_bank1(last.val)
    \/ Got({"get_otp_bank2", "get_otp_bank_2"}) /\ set_otp_bank2(last.val)
    \/ Got({"get_otp_bank3", "get_otp_bank_3"}) /\ set_otp_bank3(last.val)
    \/ Got({"get_quick_release"}) /\ set_quick_release(last.val)
    \/ Got({"get_ch0_multipliers"}) /\ set_ch0_multipliers(last.val)
    \/ Got({"get_ch1_multipliers"}) /\ set_ch1_multipliers(last.val)

NextUnit == UnitCall \/ UnitReadBack \/ UnitWriteBack

SpecUnit == InitUnit /\ [][NextUnit]_vars

\* ------------------------------------------------------------------ claims

\* the last call issued exactly one write transaction of [addr, byte], and
\* succeeded if the transport did
OneWrite(addr, byte) ==
    /\ Len(last.log) = 1
    /\ last.log[1].kind = "write"
    /\ last.log[1].out = <<addr, byte>>
    /\ last.res = IF last.log[1].ok THEN "Ok" ELSE "IoError"

\* C1: send_commands(c) fails with ShutdownCommandNotAllowed and issues no
\* bus transaction whenever bit 0 (STANDALONE) of c is set, whatever the
\* other bits; otherwise it issues exactly one write of [0x04, c]; so the
\* Commands register never receives a byte with bit 0 set from it.
C1_SendCommands ==
    /\ last.op = "send_commands" =>
          IF last.arg % 2 = 1
          THEN last.res = "ShutdownCommandNotAllowed" /\ last.log = <<>>
          ELSE OneWrite(4, last.arg)
    /\ input.kind = "send_commands" => regs[4] % 2 = 0

C1_Witness ==
    /\ last.op = "send_commands"
    /\ last.arg = 129
    /\ last.res = "ShutdownCommandNotAllowed"
    /\ last.log = <<>>

\* C2 as claimed: into_standalone is the only operation that leaves the
\* usable state, and leaving it means one write of 0x01 to 0x04 and the
\* transport handed back to the caller.
C2_OnlyStandaloneLeavesUsable ==
    handle # "usable" =>
        /\ last.op = "into_standalone"
        /\ last.val = "bus"
        /\ last.log = <<Tx("write", <<4, 1>>, TRUE, <<>>)>>

C2_Consumed ==
    /\ handle # "usable" <=> last.op \in {"into_standalone", "destroy"}
    /\ last.op = "into_standalone" =>
          /\ Len(last.log) = 1
          /\ last.log[1].kind = "write"
          /\ last.log[1].out = <<4, 1>>
          /\ IF last.log[1].ok
             THEN last.res = "Ok" /\ last.val = "bus" /\ handle = "standalone"
                  /\ regs[4] = 1
             ELSE last.res = "IoError" /\ handle = "dropped"
    /\ last.op = "destroy" =>
          handle = "destroyed" /\ last.val = "bus" /\ last.log = <<>>

\* C2, amended: into_standalone issues exactly one write of 0x01 to 0x04,
\* past the command filter, and always consumes the handle; the transport
\* comes back only when that write succeeds (on a transport error the call
\* returns IoError and the transport goes with the handle); destroy is the
\* other operation that consumes the handle, returning the transport with no
\* bus traffic; a consumed handle takes no further call and never becomes
\* usable again.
\* (every call through the handle advances nops)
C2_Standalone == []C2_Consumed /\ [][handle = "usable"]_nops

C2_Witness ==
    /\ handle = "standalone"
    /\ last.op = "into_standalone"
    /\ nops = 2
    /\ regs[4] = 1

\* the registers the claim classifies as Read-Only
ClaimedReadOnly(reg) == RegAddr[reg] \in (0..2) \cup (17..41)

\* the documented address of the register each setter is named after
SetterAddr ==
    [ set_otp_bank1 |-> 5, set_otp_bank2 |-> 6, set_otp_bank3 |-> 7,
      set_quick_release |-> 8, set_touch_threshold |-> 10,
      set_proximity_threshold |-> 11, set_temp_interference_threshold |-> 12,
      set_ch0_multipliers |-> 13, set_ch0_compensation |-> 14,
      set_ch1_multipliers |-> 15, set_ch1_compensation |-> 16 ]

\* C3: a register mutation issues a bus write iff the target register is
\* Read-Write: write_reg on a Read-Only register fails with
\* RegisterNotWritable and issues nothing, and each setter (touch threshold
\* in range) issues exactly one write at its register's address, which the
\* chip stores, and succeeds when the transport does.
C3_Writability ==
    /\ last.op = "write_reg" =>
          IF ClaimedReadOnly(last.arg.reg)
          THEN last.res = "RegisterNotWritable" /\ last.log = <<>>
          ELSE OneWrite(RegAddr[last.arg.reg], last.arg.value)
    /\ (last.op \in DOMAIN SetterAddr /\ last.res # "TouchThresholdOutOfRange") =>
          /\ Len(last.log) = 1
          /\ last.log[1].out[2] \in Byte
          /\ OneWrite(SetterAddr[last.op], last.log[1].out[2])
          /\ last.res = "Ok" => regs[SetterAddr[last.op]] = last.log[1].out[2]
    /\ last.op \in {"set_temp_interference_threshold", "set_ch0_compensation",
                    "set_ch1_compensation"} => last.log[1].out[2] = last.arg

C3_Witness ==
    /\ last.op = "write_reg"
    /\ last.arg.reg = "EventFlags"
    /\ last.res = "RegisterNotWritable"
    /\ last.log = <<>>

Bit(b, i) == (b \div Pow2(i)) % 2

\* u is the bitwise union of the bytes a and b
IsUnion(u, a, b) ==
    /\ u \in Byte
    /\ \A i \in 0..7 : Bit(u, i) = 1 <=> (Bit(a, i) = 1 \/ Bit(b, i) = 1)

Get16Ops ==
    { "get_prox_filtered_count", "get_prox_reference_count",
      "get_prox_quick_release_detect_reference", "get_move_filtered_count",
      "get_move_upper_reference_count", "get_move_lower_reference_count",
      "get_move_unfiltered_count", "get_temp_reference", "get_lta_halt_timer" }

\* C4: a successful 16-bit read is two single-byte reads, at an address A and
\* then at A+1; with replies [s1, hi] and [s2, lo] its value is
\* (hi << 8) | lo and its main events are the bitwise union of s1 and s2.
C4_Read16 ==
    (last.op \in Get16Ops /\ last.res = "Ok") =>
        /\ Len(last.log) = 2
        /\ \A i \in 1..2 : last.log[i].kind = "write_read" /\ last.log[i].ok
        /\ Len(last.log[1].out) = 1 /\ Len(last.log[2].out) = 1
        /\ last.log[2].out[1] = last.log[1].out[1] + 1
        /\ last.val = 256 * last.log[1].reply[2] + last.log[2].reply[2]
        /\ IsUnion(last.ev, last.log[1].reply[1], last.log[2].reply[1])

\* replies [0x02, 0x03] then [0x04, 0x05] give 0x0305 with events 0x06
C4_Witness ==
    /\ last.op = "get_prox_filtered_count"
    /\ last.res = "Ok"
    /\ last.log[1].reply = <<2, 3>>
    /\ last.log[2].reply = <<4, 5>>
    /\ last.val = 773
    /\ last.ev = 6

\* C5: get_prod_nr reads register 0x00 and returns Ok(0x40) exactly when the
\* payload byte is 0x40, whatever the status byte; any other payload p gives
\* IncorrectProductNumber(p).
C5_ProdNr ==
    last.op = "get_prod_nr" =>
        /\ Len(last.log) = 1
        /\ last.log[1].kind = "write_read"
        /\ last.log[1].out = <<0>>
        /\ last.log[1].ok =>
              IF last.log[1].reply[2] = 64
              THEN last.res = "Ok" /\ last.val = 64
              ELSE last.res = "IncorrectProductNumber"
                   /\ last.val = last.log[1].reply[2]
        /\ ~last.log[1].ok => last.res = "IoError"

C5_Witness ==
    /\ last.op = "get_prod_nr"
    /\ last.res = "IncorrectProductNumber"
    /\ last.val = 65
    /\ last.log[1].reply[1] # 0

\* C6: get_software_version reads the SoftwareVersion register (0x01) and
\* maps its byte: 0x06 to IQS231A, 0x07 to IQS231B, any other byte b to
\* UnknownSoftwareVersion(b); on a chip holding 0x40 in ProductNumber and
\* 0x06 or 0x07 in SoftwareVersion it succeeds.
C6_SoftwareVersion ==
    (last.op = "get_software_version" /\ last.res # "IoError") =>
        /\ last.log[1].out = <<1>>
        /\ last.log[1].reply[2] = regs[1]
        /\ regs[1] = 6 => last.res = "Ok" /\ last.val = "IQS231A"
        /\ regs[1] = 7 => last.res = "Ok" /\ last.val = "IQS231B"
        /\ regs[1] \notin {6, 7} =>
              last.res = "UnknownSoftwareVersion" /\ last.val = regs[1]

\* the documented address of the register each flag accessor is named after
FlagAddr ==
    [ get_debug_events |-> 2, get_system_flags |-> 17, get_ui_flags |-> 18,
      get_event_flags |-> 20 ]

\* C7: each status-flag accessor reads at the documented address of the
\* register it is named after and returns that register's byte with all 8
\* bits kept; none of them reads address 0x00.
C7_FlagAccessors ==
    last.op \in DOMAIN FlagAddr =>
        /\ Len(last.log) = 1
        /\ last.log[1].out = <<FlagAddr[last.op]>>
        /\ last.res = "Ok" => last.val = regs[FlagAddr[last.op]]

\* C8: set_touch_threshold(v) fails with TouchThresholdOutOfRange and issues
\* nothing for v < 4 or v > 1024; for v in [4, 1024] it writes the code
\* (v - 4) >> 2, which fits a byte, and get_touch_threshold then decodes
\* d = (code << 2) + 4 with d <= v and v - d < 4.
C8_Encode ==
    last.op = "set_touch_threshold" =>
        IF last.arg < 4 \/ last.arg > 1024
        THEN last.res = "TouchThresholdOutOfRange" /\ last.log = <<>>
        ELSE /\ (last.arg - 4) \div 4 \in Byte
             /\ OneWrite(10, (last.arg - 4) \div 4)

C8_Decode ==
    (last.op = "get_touch_threshold" /\ last.res = "Ok") =>
        last.val = 4 * last.log[1].reply[2] + 4

C8_RoundTrip ==
    ( /\ last.op = "set_touch_threshold" /\ last.res = "Ok"
      /\ last'.op = "get_touch_threshold" /\ last'.res = "Ok" ) =>
        /\ last'.log[1].reply[2] = last.log[1].out[2]
        /\ last'.val <= last.arg
        /\ last.arg - last'.val < 4

\* (the round trip is a step from one call to a different one)
C8_TouchThreshold == [](C8_Encode /\ C8_Decode) /\ [][C8_RoundTrip]_(last.op)

\* 1023 is stored as code 254 and read back as 1020
C8_Witness ==
    /\ input.kind = "set_touch_threshold"
    /\ input.v = 1023
    /\ last.op = "get_touch_threshold"
    /\ last.res = "Ok"
    /\ last.log[1].reply[2] = 254
    /\ last.val = 1020

\* the bit-packed register type each setter and getter works on, and the
\* setter each getter reads back
KindOf ==
    [ set_otp_bank1 |-> "OtpBank1", set_otp_bank2 |-> "OtpBank2",
      set_otp_bank3 |-> "OtpBank3", set_quick_release |-> "QuickRelease",
      set_ch0_multipliers |-> "ChannelMultiplier",
      set_ch1_multipliers |-> "ChannelMultiplier" ]

ReadsBack ==
    [ get_otp_bank1 |-> "set_otp_bank1", get_otp_bank_1 |-> "set_otp_bank1",
      get_otp_bank2 |-> "set_otp_bank2", get_otp_bank_2 |-> "set_otp_bank2",
      get_otp_bank3 |-> "set_otp_bank3", get_otp_bank_3 |-> "set_otp_bank3",
      get_quick_release |-> "set_quick_release",
      get_ch0_multipliers |-> "set_ch0_multipliers",
      get_ch1_multipliers |-> "set_ch1_multipliers" ]

\* no other field assignment is written as the byte the setter has written
C9_Injective ==
    (last.op \in DOMAIN KindOf /\ last.res = "Ok") =>
        \A w \in BitfieldValues(KindOf[last.op]) :
            into_bytes(KindOf[last.op], w) = last.log[1].out[2] => w = last.arg

\* set_<X>(v) followed by get_<X>() returns v, field by field
C9_SetThenGet ==
    ( /\ last.op \in DOMAIN KindOf /\ last.res = "Ok"
      /\ last'.op \in DOMAIN ReadsBack /\ last'.res = "Ok"
      /\ ReadsBack[last'.op] = last.op ) =>
        /\ DOMAIN last'.val = DOMAIN last.arg
        /\ \A f \in DOMAIN last.arg : last'.val[f] = last.arg[f]

\* writing back the value just read leaves the register's byte as it was
C9_WriteBack ==
    ( /\ last.op \in DOMAIN ReadsBack /\ last.res = "Ok"
      /\ last'.op = ReadsBack[last.op] /\ last'.arg = last.val ) =>
        /\ last'.log[1].out[2] = last.log[1].reply[2]
        /\ regs' = regs

\* C9: for OtpBank1/2/3, QuickRelease and ChannelMultiplier and every field
\* assignment v, encode is injective and decode(encode(v)) = v: set_<X>(v)
\* followed by get_<X>() returns v field by field, and a byte that was read,
\* reserved bits included, is written back unchanged.
\* (each round trip is a step from one call to a different one)
C9_RoundTrip ==
    []C9_Injective /\ [][C9_SetThenGet]_(last.op) /\ [][C9_WriteBack]_(last.op)

\* a multiplier with its reserved bits set has been stored and read back
C9_Witness ==
    /\ input.kind = "set_ch0_multipliers"
    /\ input.v.reserved = 3
    /\ last.op = "get_ch0_multipliers"
    /\ last.res = "Ok"
    /\ last.log[1].reply[2] = 229
    /\ last.val = input.v

\* the number a field value is packed as: an integer as itself, a bool as
\* 0 or 1, an enum variant as its position in the declaration
B(x) == IF x THEN 1 ELSE 0

Pos(variants, x) == (CHOOSE i \in DOMAIN variants : variants[i] = x) - 1

\* the byte layouts as the claim states them: sum of field << offset
ClaimedByte(kind, v) ==
    CASE kind = "OtpBank1" ->
           v.touch_thresh + 4 * v.ac_filter
           + 16 * Pos(ProximityThresholdVariants, v.prox_thresh) + 64 * v.i2c_addr
      [] kind = "OtpBank2" ->
           Pos(UiSelectVariants, v.ui_select) + 4 * v.quick_release
           + 8 * B(v.failsafe_pulses_on_io1)
           + 16 * Pos(BaseValueVariants, v.base_value)
           + 64 * v.target + 128 * B(v.increase_debounce)
      [] kind = "OtpBank3" ->
           Pos(SampleRateVariants, v.sample_rate) + 4 * v.ati_events_on_io1
           + 8 * Pos(Io2FunctionVariants, v.io2_function)
           + 32 * B(v.temp_n_interference_compensation)
           + 64 * Pos(ChargeTransferFrequencyVariants, v.charge_transfer_freq)
      [] kind = "QuickRelease" ->
           v.base + 16 * Pos(QuickReleaseThresholdVariants, v.threshold)
      [] kind = "ChannelMultiplier" ->
           v.compensation_multiplier + 16 * v.sensitivity_multiplier
           + 64 * v.reserved

OtpBank3New ==
    [ sample_rate |-> "_30Hz", ati_events_on_io1 |-> 0,
      io2_function |-> "Sensitivity",
      temp_n_interference_compensation |-> FALSE,
      charge_transfer_freq |-> "_500kHz" ]

\* the literal bytes of the claim
C10_Examples ==
    /\ (last.op = "set_otp_bank3" /\ last.arg =
          [OtpBank3New EXCEPT !.charge_transfer_freq = "_64kHz",
                              !.sample_rate = "_8Hz"])
          => last.log[1].out[2] = 130
    /\ (last.op = "set_otp_bank3" /\ last.arg =
          [OtpBank3New EXCEPT !.charge_transfer_freq = "_125kHz",
                              !.ati_events_on_io1 = 1,
                              !.temp_n_interference_compensation = TRUE])
          => last.log[1].out[2] = 100
    /\ (last.op = "set_quick_release"
          /\ last.arg = [base |-> 5, threshold |-> "Qrt200"])
          => last.log[1].out[2] = 149
    /\ (last.op = "get_quick_release" /\ last.res = "Ok"
          /\ last.log[1].reply[2] = 180)
          => last.val = [base |-> 4, threshold |-> "Qrt400"]

\* C10: every bit-packed register packs its fields in declaration order from
\* the least significant bit: the byte a setter writes is the sum of
\* field << offset with the offsets the claim lists, and a getter returns
\* the fields of the byte it read at those offsets.
C10_Layout ==
    /\ last.op \in DOMAIN KindOf =>
          last.log[1].out[2] = ClaimedByte(KindOf[last.op], last.arg)
    /\ (last.op \in DOMAIN ReadsBack /\ last.res = "Ok") =>
          ClaimedByte(KindOf[ReadsBack[last.op]], last.val) = last.log[1].reply[2]
    /\ C10_Examples

\* OtpBank3{125kHz, 30Hz, ati = 1, temp = true} goes out as 0x64
C10_Witness ==
    /\ last.op = "set_otp_bank3"
    /\ last.arg.charge_transfer_freq = "_125kHz"
    /\ last.arg.temp_n_interference_compensation
    /\ last.log[1].out = <<7, 100>>
    /\ last.res = "Ok"

\* --------------------------------------------------------------------- C11

\* the threshold field of the QuickRelease register (its high nibble)
QrtField == QuickRelease[FieldIndex(QuickRelease, "threshold")]

QrtCodes == 0..(Pow2(QrtField.bits) - 1)

\* the table of the claim, indexed by code + 1
ClaimedCounts ==
    <<100, 150, 50, 250, 10, 20, 25, 30, 75, 200, 300, 400, 500, 750, 850,
      1000>>

ClaimedCountSet ==
    {10, 20, 25, 30, 50, 75, 100, 150, 200, 250, 300, 400, 500, 750, 850, 1000}

\* code -> variant -> code and variant -> code -> variant are both the
\* identity, distinct codes have distinct counts, and each code's count is
\* the one of the table
C11_Codes ==
    /\ \A c \in QrtCodes :
          LET t == BitsToField(QrtField, c) IN
          /\ FieldToBits(QrtField, t) = c
          /\ counts(t) = ClaimedCounts[c + 1]
    /\ \A t \in Range(QuickReleaseThresholdVariants) :
          /\ FieldToBits(QrtField, t) \in QrtCodes
          /\ BitsToField(QrtField, FieldToBits(QrtField, t)) = t
    /\ \A c, d \in QrtCodes :
          counts(BitsToField(QrtField, c)) = counts(BitsToField(QrtField, d))
              => c = d
    /\ {counts(t) : t \in Range(QuickReleaseThresholdVariants)} = ClaimedCountSet

\* the same through the driver: the code a setter puts on the bus and the
\* variant a getter returns for the code it read
C11_OnTheBus ==
    /\ (last.op = "set_quick_release" /\ last.res = "Ok") =>
          LET c == last.log[1].out[2] \div 16 IN
          /\ BitsToField(QrtField, c) = last.arg.threshold
          /\ counts(last.arg.threshold) = ClaimedCounts[c + 1]
    /\ (last.op = "get_quick_release" /\ last.res = "Ok") =>
          LET c == last.log[1].reply[2] \div 16 IN
          /\ FieldToBits(QrtField, last.val.threshold) = c
          /\ counts(last.val.threshold) = ClaimedCounts[c + 1]

\* C11: the quick-release threshold is a bijection between the 16 four-bit
\* codes and the 16 counts {10, ..., 1000}: decoding and encoding are
\* inverse, no two codes share a count, and counts() returns the table value
\* of each code (0x0 -> 100, ..., 0x4 -> 10, ..., 0xF -> 1000).
C11_QuickReleaseThreshold == C11_Codes /\ C11_OnTheBus

\* the byte 0xb4 read back as base 4, Qrt400, 400 counts
C11_Witness ==
    /\ last.op = "get_quick_release"
    /\ last.res = "Ok"
    /\ last.log[1].reply[2] = 180
    /\ last.val.threshold = "Qrt400"
    /\ counts(last.val.threshold) = 400

\* --------------------------------------------------------------------- C12

\* accessors returning RegValue<u8> as read
PlainReadings ==
    { "get_ch0_compensation", "get_ch1_compensation", "get_filter_halt_timer",
      "get_timer_read_input", "get_timer_redo_ati" }

\* accessors returning a RegValue whose payload went through a codec
CodecReadings ==
    DOMAIN ReadsBack \cup {"get_touch_threshold", "get_proximity_threshold"}

\* every accessor of the driver that reads the chip
AccessorOps ==
    PlainReadings \cup CodecReadings \cup Get16Ops \cup DOMAIN FlagAddr
        \cup {"read_main_events", "get_prod_nr", "get_software_version"}

\* the flags of a reading are the first byte of its transaction, bit for bit
C12_Flags ==
    (last.op \in PlainReadings \cup CodecReadings /\ last.res = "Ok") =>
        /\ Len(last.log) = 1
        /\ last.log[1].kind = "write_read"
        /\ Len(last.log[1].reply) = 2
        /\ last.ev = last.log[1].reply[1]
        /\ \A i \in 0..7 : Bit(last.ev, i) = Bit(last.log[1].reply[1], i)

\* the payload is the second byte, as read or through the accessor's codec
C12_Payload ==
    /\ (last.op \in PlainReadings /\ last.res = "Ok") =>
          last.val = last.log[1].reply[2]
    /\ (last.op \in DOMAIN ReadsBack /\ last.res = "Ok") =>
          into_bytes(KindOf[ReadsBack[last.op]], last.val) = last.log[1].reply[2]
    /\ (last.op = "get_touch_threshold" /\ last.res = "Ok") =>
          last.val = 4 * last.log[1].reply[2] + 4
    /\ (last.op = "get_proximity_threshold" /\ last.res = "Ok") =>
          last.val = ProximityThresholdVariants[(last.log[1].reply[2] % 4) + 1]
    /\ (last.op = "read_main_events" /\ last.res = "Ok") =>
          /\ last.log[1].kind = "read"
          /\ last.val = last.log[1].reply[1]

\* every accessor call goes to the bus, and a byte it read is the byte the
\* chip holds at the address sent in that transaction
C12_Fresh ==
    last.op \in AccessorOps =>
        /\ Len(last.log) >= 1
        /\ \A i \in DOMAIN last.log :
              (last.log[i].kind = "write_read" /\ last.log[i].ok) =>
                  last.log[i].reply[2] = regs[last.log[i].out[1]]

\* C12: a reading's event flags are the status byte of its own transaction
\* with the unassigned bits 0x40 and 0x80 kept, its payload is the second
\* byte whatever the register, a codec changes the payload only, and every
\* accessor call issues a transaction of its own.
C12_Reading == C12_Flags /\ C12_Payload /\ C12_Fresh

\* a bit-packed reading under the status byte 0xC1
C12_Witness ==
    /\ last.op = "get_otp_bank3"
    /\ last.res = "Ok"
    /\ last.log[1].reply[1] = 193
    /\ last.ev = 193

\* --------------------------------------------------------------------- C13

\* the transactions of the last call that the transport failed
Failed == {i \in DOMAIN last.log : ~last.log[i].ok}

\* a failed transaction ends the call with IoError carrying the transport's
\* error: it is the only failed one and nothing follows it
C13_Surfaced ==
    Failed # {} =>
        /\ last.res = "IoError"
        /\ last.val = "E"
        /\ Failed = {Len(last.log)}

\* IoError is returned for a failed transaction only, and an Ok outcome has
\* no failed transaction behind it
C13_NotSuppressed ==
    /\ last.res = "IoError" => Failed # {}
    /\ last.res = "Ok" => Failed = {}

\* the two cases the claim singles out
C13_Cases ==
    /\ (last.op \in Get16Ops /\ Len(last.log) >= 1 /\ ~last.log[1].ok) =>
          Len(last.log) = 1 /\ last.res = "IoError"
    /\ (last.op = "into_standalone" /\ Failed # {}) =>
          /\ last.res = "IoError"
          /\ last.log = <<Tx("write", <<4, 1>>, FALSE, <<>>)>>
          /\ handle # "standalone"

\* C13: a transport failure is returned at once as IoError with the
\* transport's error: the failed transaction was attempted once, no further
\* transaction is issued in that call (a 16-bit read stops after a failed
\* high-byte read, into_standalone returns the error of its write), and no
\* error outcome becomes a success.
C13_TransportFailure == C13_Surfaced /\ C13_NotSuppressed /\ C13_Cases

\* a 16-bit read whose high-byte read failed: one transaction, IoError
C13_Witness ==
    /\ last.op = "get_prox_filtered_count"
    /\ last.res = "IoError"
    /\ Len(last.log) = 1
    /\ last.log[1].out = <<21>>
    /\ ~last.log[1].ok

\* --------------------------------------------------------------------- C14

\* the '_H' address of each 16-bit accessor's own logical value
HighAddr ==
    [ get_prox_filtered_count |-> 21, get_prox_reference_count |-> 23,
      get_prox_quick_release_detect_reference |-> 25,
      get_move_filtered_count |-> 27, get_move_upper_reference_count |-> 29,
      get_move_lower_reference_count |-> 31, get_move_unfiltered_count |-> 33,
      get_temp_reference |-> 35, get_lta_halt_timer |-> 37 ]

\* C14: every public 16-bit accessor reads first at the '_H' register of
\* its own logical value and then at the adjacent '_L' register of the same
\* value (0x15/0x16, ..., 0x1F/0x20, ..., 0x25/0x26), and never fails with
\* InvalidRegister.
C14_OwnRegisterPair ==
    last.op \in Get16Ops =>
        /\ last.res # "InvalidRegister"
        /\ Len(last.log) >= 1 => last.log[1].out = <<HighAddr[last.op]>>
        /\ Len(last.log) >= 2 => last.log[2].out = <<HighAddr[last.op] + 1>>
        /\ last.res = "Ok" =>
              last.val = 256 * regs[HighAddr[last.op]]
                             + regs[HighAddr[last.op] + 1]

====
